---------------------------- MODULE Spec2Model ----------------------------
(***************************************************************************)
(* A model of the zotify-downloader service: the durable backlog record    *)
(* (backlog_manager.py), the batch download processor                      *)
(* (download_processor.py), the access-token cache and track monitor       *)
(* (spotify_listener.py) and the two service threads (main.py).            *)
(*                                                                         *)
(* The backlog record is a file that every operation reads whole and       *)
(* rewrites whole.  A rewrite is open(path, 'w'), which truncates the      *)
(* file, followed by one buffered write at offset 0 when the file is       *)
(* closed (the record is far smaller than the 8 KiB write buffer).  The    *)
(* two threads take no lock, so their file steps interleave.               *)
(***************************************************************************)
EXTENDS Integers, Sequences, FiniteSets, TLC

\* ------------------------------------------------------------- bounds
NumTracks == 2
MaxItems == 3
NumTokens == 2
MaxLife == 2
MaxTime == 2

\* -------------------------------------------------- program constants
BatchCeiling == 10
ExpiryMargin == 60
DefaultLifetime == 3600

TrackIds == 1..NumTracks
StoredIds == 1..(NumTracks + 1)
NoTrack == 0
Tokens == 1..NumTokens
NoToken == 0
NoSize == -1

VARIABLES
  file,            \* the durable record: [kind, items]
  access_token,    \* SpotifyListener.access_token (NoToken: None)
  token_expires_at,\* SpotifyListener.token_expires_at
  now,             \* time.time()
  tcall,           \* history: the last _get_access_token call
  sops,            \* history: the last two store operations of a single caller
  lpc,             \* listener thread: position in _listener_loop
  last_track_id,   \* SpotifyListener.last_track_id (NoTrack: None)
  ltrack,          \* listener: track_id of the track being added
  lbacklog,        \* listener: add_track's local list
  dpc,             \* downloader thread: position in _downloader_loop
  dmax,            \* process_backlog's max_tracks
  iter,            \* process_backlog: loop iterations started
  downloaded,      \* process_backlog's counter
  dtrack,          \* process_backlog: track_id of the track peeked
  dbacklog,        \* downloader: remove_track's local list
  lin,             \* history: serial executions consistent with the returns so far
  acked,           \* history: ids enqueued with True and not yet retrieved
  removed,         \* history: entries this batch removed from the record
  calls,           \* history: capability invocations in the batch (the cycle)
  fails,           \* history (BatchSpec): invocations that failed
  callSet,         \* history (BatchSpec): ids passed to the capability
  file0,           \* history: the record when the batch, or the process, started
  dout,            \* history (BatchSpec): what the last download_track ended with
  mcall,           \* history (MonitorSpec): the last check_for_new_track call
  backlog_size,    \* _downloader_loop's backlog_size (NoSize: not assigned yet)
  gone,            \* history (RaceSpec): ids removed after a successful retrieval
                   \* with no add_track call for them under way then or made since
  settings,        \* the required environment variables that are set
  phase,           \* the process: "new", "config_error", "up", "exiting", "ended"
  running,         \* MusicDownloaderService.running
  inflight         \* history: the track whose retrieval attempt was under way
                   \* when the termination request came, until it is finished

tokenVars == <<access_token, token_expires_at>>
listenerVars == <<lpc, last_track_id, ltrack, lbacklog>>
downloaderVars == <<dpc, dmax, iter, downloaded, dtrack, dbacklog>>
batchHist == <<calls, fails, callSet, file0>>
serviceVars == <<settings, phase, running, inflight>>
extVars == <<dout, mcall, backlog_size, gone, serviceVars>>
vars == <<file, access_token, token_expires_at, now, tcall, sops, lpc,
          last_track_id, ltrack, lbacklog, dpc, dmax, iter, downloaded, dtrack,
          dbacklog, lin, acked, removed, calls, fails, callSet, file0, dout,
          mcall, backlog_size, gone, settings, phase, running, inflight>>

\* ------------------------------------------------------------ helpers
Range(s) == {s[i] : i \in 1..Len(s)}

NoDup(s) == \A i, j \in 1..Len(s) : i # j => s[i] # s[j]

\* [item for item in backlog if item["track_id"] != track_id]
RECURSIVE Without(_, _)
Without(s, id) ==
  IF s = <<>> THEN <<>>
  ELSE IF Head(s) = id THEN Without(Tail(s), id)
       ELSE <<Head(s)>> \o Without(Tail(s), id)

\* every duplicate-free list over a set of ids
RECURSIVE ListsOver(_)
ListsOver(S) ==
  IF S = {} THEN {<<>>}
  ELSE {<<>>} \cup UNION {{<<x>> \o t : t \in ListsOver(S \ {x})} : x \in S}

\* --------------------------------------------------------- the record
Json(items) == [kind |-> "json", items |-> items]
Truncated == [kind |-> "empty", items |-> <<>>]
Garbage == [kind |-> "garbage", items |-> <<>>]

\* _read_backlog: json.load, and [] on JSONDecodeError
ReadBacklog(f) == IF f.kind = "json" THEN f.items ELSE <<>>

\* open(self.backlog_file, 'w'): the file is cut to zero bytes
OpenForWrite(f) == Truncated

\* The close of _write_backlog's file: one write of the new text at offset 0
\* over whatever the file holds by then.  Over a longer text the old tail
\* stays behind the new list and the record no longer parses.  An entry's
\* text is fixed by its track, so a list with every entry of another is at
\* least as long; otherwise either may be longer.
FlushOutcomes(f, items) ==
  CASE f.kind = "empty" -> {Json(items)}
    [] f.kind = "json" ->
         IF Range(f.items) \subseteq Range(items) THEN {Json(items)}
         ELSE IF Range(items) \subseteq Range(f.items) THEN {Garbage}
         ELSE {Json(items), Garbage}
    [] OTHER -> {Json(items), Garbage}

\* a membership test that looks at the first entry only
InBacklogHeadOnly(backlog, id) == backlog # <<>> /\ backlog[1] = id

\* any(item["track_id"] == track_id for item in backlog)
InBacklog(backlog, id) == id \in Range(backlog)

\* ------------------------------------------- serial executions (history)
\* A configuration: a store value and, per thread, whether its operation in
\* progress has not taken effect yet ("todo"), has taken effect with a
\* return value ("T", "F"), or is not in progress ("idle").
AbsAdd(c, id) ==
  IF id \in Range(c.st) THEN [c EXCEPT !.l = "F"]
  ELSE [c EXCEPT !.st = Append(c.st, id), !.l = "T"]

AbsRemove(c, id) ==
  IF id \in Range(c.st) THEN [c EXCEPT !.st = Without(c.st, id), !.d = "T"]
  ELSE [c EXCEPT !.d = "F"]

LinStep(S, lid, did) ==
  S \cup {AbsAdd(c, lid) : c \in {x \in S : x.l = "todo"}}
    \cup {AbsRemove(c, did) : c \in {x \in S : x.d = "todo"}}

Close(S, lid, did) == LinStep(LinStep(S, lid, did), lid, did)

InvokeL(S) == {[c EXCEPT !.l = "todo"] : c \in S}
InvokeD(S) == {[c EXCEPT !.d = "todo"] : c \in S}
RespondL(S, lid, did, r) ==
  {[c EXCEPT !.l = "idle"] : c \in {x \in Close(S, lid, did) : x.l = r}}
RespondD(S, lid, did, r) ==
  {[c EXCEPT !.d = "idle"] : c \in {x \in Close(S, lid, did) : x.d = r}}
\* a read that returns at once: size() returning n, peekFront() returning h
ObserveSize(S, lid, did, n) == {c \in Close(S, lid, did) : Len(c.st) = n}
ObserveHead(S, lid, did, h) ==
  {c \in Close(S, lid, did) :
     IF h = NoTrack THEN c.st = <<>> ELSE c.st # <<>> /\ Head(c.st) = h}


\* ------------------------------------------------------ the token cache
\* What the authorization service may answer to the refresh-token POST.  A
\* response without expires_in is read as DefaultLifetime by
\* token_data.get("expires_in", 3600).
Lifetimes == {ExpiryMargin - 1 + k : k \in 0..MaxLife} \cup {DefaultLifetime}

ExchangeOutcomes ==
  [kind : {"ok"}, token : Tokens, life : Lifetimes]
    \cup [kind : {"network_error", "http_error", "no_token"},
          token : {NoToken}, life : {DefaultLifetime}]

\* the exception each failed exchange leaves _get_access_token with
Raised(ex) ==
  CASE ex.kind = "network_error" -> "ConnectionError"
    [] ex.kind = "http_error" -> "HTTPError"
    [] ex.kind = "no_token" -> "ValueError"
    [] OTHER -> "none"

\* a freshness test that takes the margin off a second time
TokenFreshMarginTwice(tok, exp, t) == tok # NoToken /\ t < exp - ExpiryMargin

\* a freshness test that still holds at the expiry instant
TokenFreshInclusive(tok, exp, t) == tok # NoToken /\ t <= exp

\* if self.access_token and time.time() < self.token_expires_at
TokenFresh(tok, exp, t) == tok # NoToken /\ t < exp

\* _get_access_token without its test of the response's access_token
GetAccessTokenUnchecked(tok, exp, t, ex) ==
  IF TokenFresh(tok, exp, t)
  THEN [raised |-> "none", ret |-> tok, tok |-> tok, exp |-> exp, exchanges |-> 0]
  ELSE IF ex.kind \in {"ok", "no_token"}
       THEN [raised |-> "none", ret |-> ex.token, tok |-> ex.token,
             exp |-> t + ex.life - ExpiryMargin, exchanges |-> 1]
       ELSE [raised |-> Raised(ex), ret |-> NoToken, tok |-> tok, exp |-> exp,
             exchanges |-> 1]

\* a _get_access_token that sets the expiry before it looks at the response
GetAccessTokenExpiryFirst(tok, exp, t, ex) ==
  IF TokenFresh(tok, exp, t)
  THEN [raised |-> "none", ret |-> tok, tok |-> tok, exp |-> exp, exchanges |-> 0]
  ELSE IF ex.kind = "ok"
       THEN [raised |-> "none", ret |-> ex.token, tok |-> ex.token,
             exp |-> t + ex.life - ExpiryMargin, exchanges |-> 1]
       ELSE [raised |-> Raised(ex), ret |-> NoToken, tok |-> tok,
             exp |-> t + ex.life - ExpiryMargin, exchanges |-> 1]

\* _get_access_token at time t, the POST (when made) answered by ex
GetAccessToken(tok, exp, t, ex) ==
  IF TokenFresh(tok, exp, t)
  THEN [raised |-> "none", ret |-> tok, tok |-> tok, exp |-> exp, exchanges |-> 0]
  ELSE IF ex.kind = "ok"
       THEN [raised |-> "none", ret |-> ex.token, tok |-> ex.token,
             exp |-> t + ex.life - ExpiryMargin, exchanges |-> 1]
       ELSE [raised |-> Raised(ex), ret |-> NoToken, tok |-> tok, exp |-> exp,
             exchanges |-> 1]

\* the record kept of a call: the time, the cache before it, the answer to
\* its POST, what it did, and what the call before it returned and raised
CallRecord(tok, exp, t, ex, r, prev) ==
  [made |-> TRUE, t |-> t, pre_tok |-> tok, pre_exp |-> exp, ex |-> ex,
   exchanges |-> r.exchanges, raised |-> r.raised, ret |-> r.ret,
   prev_ret |-> prev.ret, prev_raised |-> prev.raised]

Last2(s, x) == IF s = <<>> THEN <<x>> ELSE <<s[Len(s)], x>>

\* ---------------------------------------------------- the track monitor
\* What the currently-playing request may end with.
PollResponses ==
  [kind : {"conn_error", "no_content", "http_error", "no_item", "episode"},
   id : {NoTrack}, playing : {FALSE}]
    \cup [kind : {"track"}, id : TrackIds, playing : BOOLEAN]

\* get_currently_playing, given _get_access_token's result and the response
CurrentlyPlaying(tr, resp) ==
  IF tr.raised = "HTTPError" THEN [raised |-> TRUE, id |-> NoTrack, playing |-> FALSE]
  ELSE IF tr.raised # "none" THEN [raised |-> FALSE, id |-> NoTrack, playing |-> FALSE]
  ELSE IF resp.kind = "http_error"
       THEN [raised |-> TRUE, id |-> NoTrack, playing |-> FALSE]
  ELSE IF resp.kind = "track"
       THEN [raised |-> FALSE, id |-> resp.id, playing |-> resp.playing]
  ELSE [raised |-> FALSE, id |-> NoTrack, playing |-> FALSE]

\* no currently-playing request was made
NoPoll == [kind |-> "none", id |-> NoTrack, playing |-> FALSE]

\* a check_for_new_track without its test of is_playing
CheckForNewTrackIgnoresPlaying(last, cur) ==
  IF cur.raised THEN [raised |-> TRUE, event |-> NoTrack, last |-> last]
  ELSE IF cur.id = NoTrack
       THEN [raised |-> FALSE, event |-> NoTrack, last |-> last]
  ELSE IF cur.id # last
       THEN [raised |-> FALSE, event |-> cur.id, last |-> cur.id]
  ELSE [raised |-> FALSE, event |-> NoTrack, last |-> last]

\* a check_for_new_track that forgets last_track_id when nothing is playing
CheckForNewTrackForgetsOnPause(last, cur) ==
  IF cur.raised THEN [raised |-> TRUE, event |-> NoTrack, last |-> last]
  ELSE IF cur.id = NoTrack \/ ~cur.playing
       THEN [raised |-> FALSE, event |-> NoTrack, last |-> NoTrack]
  ELSE IF cur.id # last
       THEN [raised |-> FALSE, event |-> cur.id, last |-> cur.id]
  ELSE [raised |-> FALSE, event |-> NoTrack, last |-> last]

\* a check_for_new_track that takes the id of a paused track as seen
CheckForNewTrackRemembersPaused(last, cur) ==
  IF cur.raised THEN [raised |-> TRUE, event |-> NoTrack, last |-> last]
  ELSE IF cur.id = NoTrack
       THEN [raised |-> FALSE, event |-> NoTrack, last |-> last]
  ELSE IF ~cur.playing
       THEN [raised |-> FALSE, event |-> NoTrack, last |-> cur.id]
  ELSE IF cur.id # last
       THEN [raised |-> FALSE, event |-> cur.id, last |-> cur.id]
  ELSE [raised |-> FALSE, event |-> NoTrack, last |-> last]

\* check_for_new_track: the event returned (NoTrack: None) and last_track_id
CheckForNewTrack(last, cur) ==
  IF cur.raised THEN [raised |-> TRUE, event |-> NoTrack, last |-> last]
  ELSE IF cur.id = NoTrack \/ ~cur.playing
       THEN [raised |-> FALSE, event |-> NoTrack, last |-> last]
  ELSE IF cur.id # last
       THEN [raised |-> FALSE, event |-> cur.id, last |-> cur.id]
  ELSE [raised |-> FALSE, event |-> NoTrack, last |-> last]

\* ------------------------------------------------- the download processor
\* An entry's spotify_url and uri are fixed by its track: an https URL, only
\* a spotify:track: URI, or neither.
UrlOf(id) ==
  CASE id % 3 = 1 -> "https://open.spotify.com/track/"
    [] id % 3 = 2 -> "spotify:track:"
    [] OTHER -> ""

\* a download_track without its check of the URL
UrlUsableUnchecked(id) == TRUE

\* download_track's URI-to-URL step and its check of the result
UrlUsable(id) ==
  LET url == IF UrlOf(id) = "spotify:track:"
             THEN "https://open.spotify.com/track/" ELSE UrlOf(id)
  IN url # ""

\* what download_from_urls may do, the session being set up before it
CapabilityOutcomes == {"ok", "false", "raise"}


\* ------------------------------------------- the store, one caller at a time
\* _write_backlog as a whole: open, dump, close
WriteBacklog(f, items) ==
  CHOOSE r \in FlushOutcomes(OpenForWrite(f), items) : TRUE

\* an add_track without its membership test
AddTrackUnchecked(f, id) ==
  [file |-> WriteBacklog(f, Append(ReadBacklog(f), id)), ret |-> TRUE]

\* an add_track that puts the new entry first
AddTrackAtFront(f, id) ==
  IF InBacklog(ReadBacklog(f), id) THEN [file |-> f, ret |-> FALSE]
  ELSE [file |-> WriteBacklog(f, <<id>> \o ReadBacklog(f)), ret |-> TRUE]

\* add_track
AddTrack(f, id) ==
  LET backlog == ReadBacklog(f)
  IN IF InBacklog(backlog, id) THEN [file |-> f, ret |-> FALSE]
     ELSE [file |-> WriteBacklog(f, Append(backlog, id)), ret |-> TRUE]

\* a remove_track that writes the record back whether or not it shrank
RemoveTrackAlwaysWrites(f, id) ==
  [file |-> WriteBacklog(f, Without(ReadBacklog(f), id)),
   ret |-> Len(Without(ReadBacklog(f), id)) < Len(ReadBacklog(f))]

\* remove_track
RemoveTrack(f, id) ==
  LET backlog == ReadBacklog(f)
      kept == Without(backlog, id)
  IN IF Len(kept) < Len(backlog)
     THEN [file |-> WriteBacklog(f, kept), ret |-> TRUE]
     ELSE [file |-> f, ret |-> FALSE]

\* a get_next_track that returns backlog[-1]
GetNextTrackLast(f) ==
  LET backlog == ReadBacklog(f)
  IN IF backlog = <<>> THEN NoTrack ELSE backlog[Len(backlog)]

\* get_next_track (NoTrack: None)
GetNextTrack(f) ==
  LET backlog == ReadBacklog(f)
  IN IF backlog = <<>> THEN NoTrack ELSE backlog[1]

\* get_backlog_size
GetBacklogSize(f) == Len(ReadBacklog(f))

\* get_all_tracks
GetAllTracks(f) == ReadBacklog(f)

\* clear_backlog
ClearBacklog(f) == WriteBacklog(f, <<>>)

\* ----------------------------------------------------------------- Init
InitFiles == {Json(s) : s \in ListsOver(StoredIds)} \cup {Garbage}

NoExchange == [kind |-> "none", token |-> NoToken, life |-> DefaultLifetime]

\* _validate_config's list of required environment variables
Required ==
  {"LISTENING_CLIENT_ID", "LISTENING_CLIENT_SECRET", "LISTENING_REFRESH_TOKEN",
   "DOWNLOAD_USERNAME", "DOWNLOAD_PASSWORD"}

NoCheck ==
  [made |-> FALSE, pre_last |-> NoTrack, auth |-> "none", resp |-> NoPoll,
   raised |-> FALSE, event |-> NoTrack, pre_rep |-> NoTrack, rep |-> NoTrack,
   pre_gap |-> FALSE, gap |-> FALSE]

\* everything but the record and the process
InitRest ==
  /\ dout = "none"
  /\ inflight = NoTrack
  /\ mcall = NoCheck
  /\ backlog_size = NoSize
  /\ gone = {}
  /\ access_token = NoToken
  /\ token_expires_at = 0
  /\ now = 0
  /\ tcall = [made |-> FALSE, t |-> 0, pre_tok |-> NoToken, pre_exp |-> 0,
              ex |-> NoExchange, exchanges |-> 0, raised |-> "none",
              ret |-> NoToken, prev_ret |-> NoToken, prev_raised |-> "none"]
  /\ sops = <<>>
  /\ last_track_id = NoTrack
  /\ ltrack = NoTrack
  /\ lbacklog = <<>>
  /\ iter = 0
  /\ downloaded = 0
  /\ dtrack = NoTrack
  /\ dbacklog = <<>>
  /\ lin = {[st |-> ReadBacklog(file), l |-> "idle", d |-> "idle"]}
  /\ acked = {}
  /\ removed = 0
  /\ calls = 0
  /\ fails = 0
  /\ callSet = {}

\* the service constructed and running, over a record that exists
InitCommon ==
  /\ file \in InitFiles
  /\ settings = Required
  /\ phase = "up"
  /\ running = TRUE
  /\ InitRest

\* MusicDownloaderService.run: both threads started
Init ==
  /\ InitCommon
  /\ lpc = "check"
  /\ dpc = "size"
  /\ dmax = BatchCeiling
  /\ file0 = Truncated

\* ------------------------------------------------------------ the clock
Tick ==
  /\ now < MaxTime
  /\ now' = now + 1
  /\ UNCHANGED <<file, tokenVars, tcall, sops, listenerVars, downloaderVars,
                 lin, acked, removed, batchHist, extVars>>

\* ------------------------------------------------- the listener thread
\* What check_for_new_track may end with when last_track_id is last: every
\* result over the token cache being fresh or not, the exchange's answer and
\* the poll's response.
CheckOutcomes(last) ==
  {CheckForNewTrack(last, CurrentlyPlaying(GetAccessToken(tok, 1, 0, ex), resp)) :
     tok \in {NoToken} \cup Tokens, ex \in ExchangeOutcomes, resp \in PollResponses}

\* self.listener.check_for_new_track(), and the branch on its result.  Spec
\* follows the store and leaves the token cache free: the poll's result is
\* drawn over every state of the cache (TokenSpec follows the cache).
CheckStep ==
  /\ lpc = "check"
  /\ \E chk \in CheckOutcomes(last_track_id) :
       /\ last_track_id' = chk.last
       /\ ltrack' = chk.event
       /\ IF chk.event # NoTrack
          THEN lpc' = "add_read" /\ lin' = InvokeL(lin)
          ELSE lpc' = "sleep" /\ lin' = lin
  /\ UNCHANGED <<file, tokenVars, now, tcall, sops, lbacklog, downloaderVars,
                 acked, removed>>

ListenerCheck == CheckStep /\ UNCHANGED <<batchHist, extVars>>

\* add_track: the read and the membership test
AddRead ==
  /\ lpc = "add_read"
  /\ LET backlog == ReadBacklog(file)
     IN IF InBacklog(backlog, ltrack)
        THEN /\ lpc' = "sleep"
             /\ ltrack' = NoTrack
             /\ lbacklog' = <<>>
             /\ lin' = RespondL(lin, ltrack, dtrack, "F")
        ELSE /\ lpc' = "add_open"
             /\ lbacklog' = Append(backlog, ltrack)
             /\ UNCHANGED <<ltrack, lin>>
  /\ UNCHANGED <<file, tokenVars, now, tcall, sops, last_track_id,
                 downloaderVars, acked, removed, batchHist, extVars>>

\* add_track: _write_backlog opens the file
AddOpen ==
  /\ lpc = "add_open"
  /\ file' = OpenForWrite(file)
  /\ lpc' = "add_write"
  /\ UNCHANGED <<tokenVars, now, tcall, sops, last_track_id, ltrack, lbacklog,
                 downloaderVars, lin, acked, removed, batchHist, extVars>>

\* add_track: _write_backlog dumps and closes; return True
AddWrite ==
  /\ lpc = "add_write"
  /\ file' \in FlushOutcomes(file, lbacklog)
  /\ lpc' = "sleep"
  /\ ltrack' = NoTrack
  /\ lbacklog' = <<>>
  /\ lin' = RespondL(lin, ltrack, dtrack, "T")
  /\ acked' = acked \cup {ltrack}
  /\ UNCHANGED <<tokenVars, now, tcall, sops, last_track_id, downloaderVars,
                 removed, batchHist, extVars>>

\* time.sleep(self.check_interval), then while self.running
ListenerSleep ==
  /\ lpc = "sleep"
  /\ lpc' = "check"
  /\ UNCHANGED <<file, tokenVars, now, tcall, sops, last_track_id, ltrack,
                 lbacklog, downloaderVars, lin, acked, removed, batchHist, extVars>>

\* ------------------------------------------------ the downloader thread
\* a downloader loop that calls process_backlog whatever the size
BacklogNonEmptyUnchecked(n) == TRUE

\* if backlog_size > 0
BacklogNonEmpty(n) == n > 0

\* get_backlog_size() and the call of process_backlog(max_tracks=10)
DlSize ==
  /\ dpc = "size"
  /\ LET n == GetBacklogSize(file)
     IN /\ lin' = ObserveSize(lin, ltrack, dtrack, n)
        /\ IF BacklogNonEmpty(n)
           THEN dpc' = "peek" /\ dmax' = BatchCeiling
           ELSE dpc' = "sleep" /\ dmax' = dmax
  /\ iter' = 0
  /\ downloaded' = 0
  /\ removed' = 0
  /\ UNCHANGED <<file, tokenVars, now, tcall, sops, listenerVars, dtrack,
                 dbacklog, acked, batchHist, extVars>>

\* process_backlog: for _ in range(max_tracks), and get_next_track()
PeekStep ==
  /\ dpc = "peek"
  /\ IF iter = dmax
     THEN /\ dpc' = "ret"
          /\ UNCHANGED <<dtrack, lin>>
     ELSE LET h == GetNextTrack(file)
          IN /\ lin' = ObserveHead(lin, ltrack, dtrack, h)
             /\ dtrack' = h
             /\ dpc' = IF h = NoTrack THEN "ret" ELSE "download"
  /\ UNCHANGED <<file, tokenVars, now, tcall, sops, listenerVars, dmax, iter,
                 downloaded, dbacklog, acked, removed>>

\* what download_track(track) may end with
DownloadOutcomes(id) == IF UrlUsable(id) THEN CapabilityOutcomes ELSE {"invalid"}

\* a download_track without its except clause
DownloadTrackPropagates(out) ==
  CASE out = "ok" -> "True"
    [] out = "raise" -> "raised"
    [] OTHER -> "False"

\* download_track's return: True when download_from_urls returned a true
\* value; False when the URL is unusable, when it returned a false value,
\* and when it (or the session's set-up) raised
DownloadTrack(out) == IF out = "ok" THEN "True" ELSE "False"

\* download_track(track) ending with out, and the branch on its result
DownloadStep(out) ==
  /\ dpc = "download"
  /\ out \in DownloadOutcomes(dtrack)
  /\ CASE DownloadTrack(out) = "True" ->
            /\ dpc' = "rm_read"
            /\ acked' = acked \ {dtrack}
            /\ lin' = InvokeD(lin)
            /\ UNCHANGED <<dtrack, iter>>
       [] DownloadTrack(out) = "False" ->
            /\ dpc' = "peek"
            /\ dtrack' = NoTrack
            /\ iter' = iter + 1
            /\ UNCHANGED <<acked, lin>>
       [] OTHER ->
            /\ dpc' = "raised"
            /\ UNCHANGED <<dtrack, iter, acked, lin>>
  /\ UNCHANGED <<file, tokenVars, now, tcall, sops, listenerVars, dmax,
                 downloaded, dbacklog, removed>>

\* remove_track: the read and the filter
RmReadStep ==
  /\ dpc = "rm_read"
  /\ LET backlog == ReadBacklog(file)
         kept == Without(backlog, dtrack)
     IN IF Len(kept) < Len(backlog)
        THEN /\ dpc' = "rm_open"
             /\ dbacklog' = kept
             /\ UNCHANGED <<dtrack, iter, downloaded, lin>>
        ELSE /\ dpc' = "peek"
             /\ dtrack' = NoTrack
             /\ dbacklog' = <<>>
             /\ iter' = iter + 1
             /\ downloaded' = downloaded + 1
             /\ lin' = RespondD(lin, ltrack, dtrack, "F")
  /\ UNCHANGED <<file, tokenVars, now, tcall, sops, listenerVars, dmax, acked,
                 removed>>

\* remove_track: _write_backlog opens the file
RmOpenStep ==
  /\ dpc = "rm_open"
  /\ file' = OpenForWrite(file)
  /\ dpc' = "rm_write"
  /\ UNCHANGED <<tokenVars, now, tcall, sops, listenerVars, dmax, iter,
                 downloaded, dtrack, dbacklog, lin, acked, removed>>

\* remove_track: _write_backlog dumps and closes; return True; downloaded += 1
RmWriteStep ==
  /\ dpc = "rm_write"
  /\ file' \in FlushOutcomes(file, dbacklog)
  /\ dpc' = "peek"
  /\ dtrack' = NoTrack
  /\ dbacklog' = <<>>
  /\ iter' = iter + 1
  /\ downloaded' = downloaded + 1
  /\ removed' = removed + 1
  /\ lin' = RespondD(lin, ltrack, dtrack, "T")
  /\ UNCHANGED <<tokenVars, now, tcall, sops, listenerVars, dmax, acked>>

DlPeek == PeekStep /\ UNCHANGED <<batchHist, extVars>>
DlDownload == (\E out \in CapabilityOutcomes \cup {"invalid"} : DownloadStep(out))
                /\ UNCHANGED <<batchHist, extVars>>
DlRmRead == RmReadStep /\ UNCHANGED <<batchHist, extVars>>
DlRmOpen == RmOpenStep /\ UNCHANGED <<batchHist, extVars>>
DlRmWrite == RmWriteStep /\ UNCHANGED <<batchHist, extVars>>

\* process_backlog returns downloaded
DlReturn ==
  /\ dpc = "ret"
  /\ dpc' = "sleep"
  /\ UNCHANGED <<file, tokenVars, now, tcall, sops, listenerVars, dmax, iter,
                 downloaded, dtrack, dbacklog, lin, acked, removed, batchHist, extVars>>

\* time.sleep(self.download_interval), then while self.running
DlSleep ==
  /\ dpc = "sleep"
  /\ dpc' = "size"
  /\ UNCHANGED <<file, tokenVars, now, tcall, sops, listenerVars, dmax, iter,
                 downloaded, dtrack, dbacklog, lin, acked, removed, batchHist, extVars>>

Next ==
  \/ ListenerCheck \/ AddRead \/ AddOpen \/ AddWrite \/ ListenerSleep
  \/ DlSize \/ DlPeek \/ DlDownload \/ DlRmRead \/ DlRmOpen \/ DlRmWrite
  \/ DlReturn \/ DlSleep

Spec == Init /\ [][Next]_vars

\* ----------------------------------------- one batch, nothing else running
\* process_backlog(backlog_manager, max_tracks) called on its own
BatchInit ==
  /\ InitCommon
  /\ lpc = "off"
  /\ dpc = "peek"
  /\ dmax \in (1..MaxItems) \cup {BatchCeiling}
  /\ file0 = file

BPeek == PeekStep /\ UNCHANGED <<batchHist, extVars>>

BDownload ==
  \E out \in CapabilityOutcomes \cup {"invalid"} :
    /\ DownloadStep(out)
    /\ calls' = IF out = "invalid" THEN calls ELSE calls + 1
    /\ fails' = IF out \in {"false", "raise"} THEN fails + 1 ELSE fails
    /\ callSet' = IF out = "invalid" THEN callSet ELSE callSet \cup {dtrack}
    /\ dout' = out
    /\ UNCHANGED <<file0, gone, mcall, backlog_size, serviceVars>>

BRmRead == RmReadStep /\ UNCHANGED <<batchHist, extVars>>
BRmOpen == RmOpenStep /\ UNCHANGED <<batchHist, extVars>>
BRmWrite == RmWriteStep /\ UNCHANGED <<batchHist, extVars>>

BatchNext == BPeek \/ BDownload \/ BRmRead \/ BRmOpen \/ BRmWrite

BatchSpec == BatchInit /\ [][BatchNext]_vars

\* --------------------------------------------- the store's API, one caller
StoreInit ==
  /\ InitCommon
  /\ lpc = "off"
  /\ dpc = "off"
  /\ dmax = BatchCeiling
  /\ file0 = Truncated

OpRecord(op, id, ok, val, list) ==
  [op |-> op, id |-> id, ok |-> ok, val |-> val, list |-> list, pre |-> file]

StoreFrame ==
  UNCHANGED <<tokenVars, now, tcall, listenerVars, downloaderVars, lin, acked,
              removed, batchHist, extVars>>

SAddTrack ==
  \E id \in StoredIds :
    LET r == AddTrack(file, id)
    IN /\ file' = r.file
       /\ sops' = Last2(sops, OpRecord("add", id, r.ret, 0, <<>>))
       /\ StoreFrame

SRemoveTrack ==
  \E id \in StoredIds :
    LET r == RemoveTrack(file, id)
    IN /\ file' = r.file
       /\ sops' = Last2(sops, OpRecord("remove", id, r.ret, 0, <<>>))
       /\ StoreFrame

SGetNextTrack ==
  /\ sops' = Last2(sops, OpRecord("next", NoTrack, TRUE, GetNextTrack(file), <<>>))
  /\ UNCHANGED file
  /\ StoreFrame

SGetBacklogSize ==
  /\ sops' = Last2(sops, OpRecord("size", NoTrack, TRUE, GetBacklogSize(file), <<>>))
  /\ UNCHANGED file
  /\ StoreFrame

SGetAllTracks ==
  /\ sops' = Last2(sops, OpRecord("all", NoTrack, TRUE, 0, GetAllTracks(file)))
  /\ UNCHANGED file
  /\ StoreFrame

SClearBacklog ==
  /\ file' = ClearBacklog(file)
  /\ sops' = Last2(sops, OpRecord("clear", NoTrack, TRUE, 0, <<>>))
  /\ StoreFrame

StoreNext ==
  \/ SAddTrack \/ SRemoveTrack \/ SGetNextTrack \/ SGetBacklogSize
  \/ SGetAllTracks \/ SClearBacklog

StoreSpec == StoreInit /\ [][StoreNext]_vars

\* ------------------------------------------------ the token cache alone
TokenInit ==
  /\ InitCommon
  /\ file = Json(<<>>)
  /\ lpc = "off"
  /\ dpc = "off"
  /\ dmax = BatchCeiling
  /\ file0 = Truncated

\* one call of _get_access_token
TokGet ==
  /\ \E ex \in (IF TokenFresh(access_token, token_expires_at, now)
                THEN {NoExchange} ELSE ExchangeOutcomes) :
       LET tr == GetAccessToken(access_token, token_expires_at, now, ex)
       IN /\ access_token' = tr.tok
          /\ token_expires_at' = tr.exp
          /\ tcall' = CallRecord(access_token, token_expires_at, now, ex, tr, tcall)
  /\ UNCHANGED <<file, now, sops, listenerVars, downloaderVars, lin, acked,
                 removed, batchHist, extVars>>

TokenNext == TokGet \/ Tick

TokenSpec == TokenInit /\ [][TokenNext]_vars

\* ------------------------- the two threads, with what has been retrieved
\* Spec's threads over a record that parses, the ids retrieved and removed
\* kept beside them.
RaceFrame == UNCHANGED <<batchHist, dout, mcall, backlog_size, serviceVars>>

RaceInit ==
  /\ Init
  /\ file \in {Json(s) : s \in ListsOver(TrackIds)}

\* check_for_new_track(); an event is followed by add_track for its id
RCheck == CheckStep /\ gone' = gone \ {ltrack'} /\ RaceFrame

RPeek == PeekStep /\ UNCHANGED gone /\ RaceFrame

RDownload ==
  /\ \E out \in CapabilityOutcomes \cup {"invalid"} : DownloadStep(out)
  /\ UNCHANGED gone
  /\ RaceFrame

RRmRead == RmReadStep /\ UNCHANGED gone /\ RaceFrame
RRmOpen == RmOpenStep /\ UNCHANGED gone /\ RaceFrame

\* remove_track has written the record without the entry retrieved; an
\* add_track call for the same id that is under way may take effect after it
RRmWrite ==
  /\ RmWriteStep
  /\ gone' = IF ltrack = dtrack THEN gone ELSE gone \cup {dtrack}
  /\ RaceFrame

RaceNext ==
  \/ RCheck \/ AddRead \/ AddOpen \/ AddWrite \/ ListenerSleep
  \/ DlSize \/ RPeek \/ RDownload \/ RRmRead \/ RRmOpen \/ RRmWrite
  \/ DlReturn \/ DlSleep

RaceSpec == RaceInit /\ [][RaceNext]_vars

\* ------------------------------------ the two threads, fairly scheduled
\* Each loop is a thread of its own and keeps being scheduled; a capability
\* invoked again and again on one entry does not fail every time.
ListenerSteps == RCheck \/ AddRead \/ AddOpen \/ AddWrite \/ ListenerSleep

DownloaderSteps ==
  \/ DlSize \/ RPeek \/ RDownload \/ RRmRead \/ RRmOpen \/ RRmWrite
  \/ DlReturn \/ DlSleep

\* download_track(track) returns True for the entry id
Retrieved(id) ==
  /\ dtrack = id
  /\ DownloadStep("ok")
  /\ UNCHANGED gone
  /\ RaceFrame

DrainSpec ==
  /\ RaceSpec
  /\ WF_vars(ListenerSteps)
  /\ WF_vars(DownloaderSteps)
  /\ \A id \in TrackIds : SF_vars(Retrieved(id))

\* --------------------------------- the store's API over a damaged record
\* Besides a list, an empty file and a text json.load rejects, the file may
\* be absent, hold bytes that are not UTF-8, or hold the JSON text null.
Absent == [kind |-> "missing", items |-> <<>>]
Undecodable == [kind |-> "undecodable", items |-> <<>>]
JsonNull == [kind |-> "null", items |-> <<>>]

DamagedFiles == {Absent, Truncated, Garbage, Undecodable, JsonNull}

\* What _read_backlog ends with: open() raising FileNotFoundError and
\* json.load raising JSONDecodeError are caught; f.read() raising
\* UnicodeDecodeError is not; null is returned as None.
ReadRaises(f) == IF f.kind = "undecodable" THEN "UnicodeDecodeError" ELSE "none"

\* an operation's result: the file after it, what it raised, what it
\* returned (a type and the value in a sequence)
Result(f, raised, ret) == [file |-> f, raised |-> raised, ret |-> ret]

NoReturn == <<"none", <<>>>>

\* get_backlog_size: len(None) raises TypeError
TryGetBacklogSize(f) ==
  IF ReadRaises(f) # "none" THEN Result(f, ReadRaises(f), NoReturn)
  ELSE IF f.kind = "null" THEN Result(f, "TypeError", NoReturn)
  ELSE Result(f, "none", <<"int", <<GetBacklogSize(f)>>>>)

\* get_next_track: not None is true, so None is returned
TryGetNextTrack(f) ==
  IF ReadRaises(f) # "none" THEN Result(f, ReadRaises(f), NoReturn)
  ELSE Result(f, "none", <<"track", <<GetNextTrack(f)>>>>)

\* get_all_tracks: returns what _read_backlog returned
TryGetAllTracks(f) ==
  IF ReadRaises(f) # "none" THEN Result(f, ReadRaises(f), NoReturn)
  ELSE IF f.kind = "null" THEN Result(f, "none", <<"None", <<>>>>)
  ELSE Result(f, "none", <<"list", GetAllTracks(f)>>)

\* add_track: iterating None raises TypeError
TryAddTrack(f, id) ==
  IF ReadRaises(f) # "none" THEN Result(f, ReadRaises(f), NoReturn)
  ELSE IF f.kind = "null" THEN Result(f, "TypeError", NoReturn)
  ELSE Result(AddTrack(f, id).file, "none", <<"bool", <<AddTrack(f, id).ret>>>>)

\* remove_track: len(None) raises TypeError
TryRemoveTrack(f, id) ==
  IF ReadRaises(f) # "none" THEN Result(f, ReadRaises(f), NoReturn)
  ELSE IF f.kind = "null" THEN Result(f, "TypeError", NoReturn)
  ELSE Result(RemoveTrack(f, id).file, "none",
              <<"bool", <<RemoveTrack(f, id).ret>>>>)

\* the operation op on the record f
Apply(op, f, id) ==
  CASE op = "size" -> TryGetBacklogSize(f)
    [] op = "next" -> TryGetNextTrack(f)
    [] op = "all" -> TryGetAllTracks(f)
    [] op = "add" -> TryAddTrack(f, id)
    [] OTHER -> TryRemoveTrack(f, id)

HealInit ==
  /\ file \in DamagedFiles \cup {Json(s) : s \in ListsOver(TrackIds)}
  /\ settings = Required
  /\ phase = "up"
  /\ running = TRUE
  /\ lpc = "off"
  /\ dpc = "off"
  /\ dmax = BatchCeiling
  /\ file0 = Truncated
  /\ InitRest

\* one call of a store operation; the call is kept with the record it found
HealOp(op, id) ==
  LET r == Apply(op, file, id)
  IN /\ file' = r.file
     /\ sops' = <<[op |-> op, id |-> id, pre |-> file, raised |-> r.raised,
                   ret |-> r.ret]>>
     /\ StoreFrame

HGetBacklogSize == HealOp("size", NoTrack)
HGetNextTrack == HealOp("next", NoTrack)
HGetAllTracks == HealOp("all", NoTrack)
HAddTrack == \E id \in TrackIds : HealOp("add", id)
HRemoveTrack == \E id \in TrackIds : HealOp("remove", id)

HealNext ==
  \/ HGetBacklogSize \/ HGetNextTrack \/ HGetAllTracks \/ HAddTrack
  \/ HRemoveTrack

HealSpec == HealInit /\ [][HealNext]_vars

\* ------------------------------- the service: startup, loops, shutdown
\* The two loops with their try/except, the store's operations taken whole
\* (Spec interleaves their file steps), an OSError possible in each of them.
ServiceFiles == {Json(s) : s \in ListsOver(TrackIds)} \cup {Garbage, Absent}

\* a _validate_config that looks at the listening account's variables only
ValidateConfigListenerOnly(set) ==
  {"LISTENING_CLIENT_ID", "LISTENING_CLIENT_SECRET", "LISTENING_REFRESH_TOKEN"}
    \subseteq set

\* _validate_config: TRUE when it returns, FALSE when it raises ValueError
ValidateConfig(set) == Required \subseteq set

\* an _ensure_backlog_exists that writes the empty list whatever it finds
EnsureBacklogExistsAlwaysWrites(f) == WriteBacklog(f, <<>>)

\* _ensure_backlog_exists
EnsureBacklogExists(f) == IF f.kind = "missing" THEN WriteBacklog(f, <<>>) ELSE f

\* a loop without its except clause: an error ends it
AfterIterationUncaught(raised, run) ==
  IF raised THEN "done" ELSE IF run THEN "top" ELSE "done"

\* where a loop goes after an iteration, ended normally or in the except
\* clause: both sleep, then the while tests self.running
AfterIteration(raised, run) == IF run THEN "top" ELSE "done"

\* what a store operation's file access may end with
IoOutcomes == {"ok", "OSError"}

ServiceInit ==
  /\ file \in ServiceFiles
  /\ file0 = file
  /\ settings \in SUBSET Required
  /\ phase = "new"
  /\ running = FALSE
  /\ lpc = "off"
  /\ dpc = "off"
  /\ dmax = BatchCeiling
  /\ InitRest

\* the threads run until the interpreter has ended
ThreadsLive == phase \in {"up", "exiting"}

\* MusicDownloaderService() and run(): validate, construct, start the threads
Startup ==
  /\ phase = "new"
  /\ IF ValidateConfig(settings)
     THEN /\ file' = EnsureBacklogExists(file)
          /\ running' = TRUE
          /\ phase' = "up"
          /\ lpc' = "check"
          /\ dpc' = "size"
     ELSE /\ phase' = "config_error"
          /\ UNCHANGED <<file, running, lpc, dpc>>
  /\ UNCHANGED <<tokenVars, now, tcall, sops, last_track_id, ltrack, lbacklog,
                 dmax, iter, downloaded, dtrack, dbacklog, lin, acked, removed,
                 batchHist, dout, gone, mcall, backlog_size, settings, inflight>>

\* _signal_handler: self.running = False, sys.exit(0) in the main thread
Signal ==
  /\ phase = "up"
  /\ running' = FALSE
  /\ phase' = "exiting"
  /\ inflight' = IF dpc \in {"download", "remove"} THEN dtrack ELSE NoTrack
  /\ UNCHANGED <<file, tokenVars, now, tcall, sops, listenerVars, downloaderVars,
                 lin, acked, removed, batchHist, dout, gone, mcall, backlog_size, settings>>

\* the interpreter ends once the main thread has: the two threads are daemon
\* threads, which it does not wait for
Exit ==
  /\ phase = "exiting"
  /\ phase' = "ended"
  /\ UNCHANGED <<file, tokenVars, now, tcall, sops, listenerVars, downloaderVars,
                 lin, acked, removed, batchHist, dout, gone, mcall, backlog_size, settings,
                 running, inflight>>

\* the process is started again over the record the ended one left: nothing
\* but the record (and the environment) outlives a process
Restart ==
  /\ phase = "ended"
  /\ phase' = "new"
  /\ file0' = file
  /\ lpc' = "off"
  /\ dpc' = "off"
  /\ last_track_id' = NoTrack
  /\ ltrack' = NoTrack
  /\ dtrack' = NoTrack
  /\ iter' = 0
  /\ downloaded' = 0
  /\ calls' = 0
  /\ backlog_size' = NoSize
  /\ inflight' = NoTrack
  /\ lin' = {[st |-> ReadBacklog(file), l |-> "idle", d |-> "idle"]}
  /\ UNCHANGED <<file, tokenVars, now, tcall, sops, lbacklog, dmax, dbacklog,
                 acked, removed, fails, callSet, dout, gone, mcall, settings,
                 running>>

\* _listener_loop: check_for_new_track() and the branch on its result
SvcCheck ==
  /\ ThreadsLive
  /\ lpc = "check"
  /\ \E chk \in CheckOutcomes(last_track_id) :
       /\ last_track_id' = chk.last
       /\ ltrack' = chk.event
       /\ lpc' = IF chk.raised THEN "except"
                 ELSE IF chk.event # NoTrack THEN "add" ELSE "sleep"
  /\ UNCHANGED <<file, tokenVars, now, tcall, sops, lbacklog, downloaderVars,
                 lin, acked, removed, batchHist, extVars>>

\* _listener_loop: self.backlog.add_track(new_track)
SvcAdd ==
  /\ ThreadsLive
  /\ lpc = "add"
  /\ \E io \in IoOutcomes :
       IF io = "ok"
       THEN file' = AddTrack(file, ltrack).file /\ lpc' = "sleep"
       ELSE file' = file /\ lpc' = "except"
  /\ ltrack' = NoTrack
  /\ UNCHANGED <<tokenVars, now, tcall, sops, last_track_id, lbacklog,
                 downloaderVars, lin, acked, removed, batchHist, extVars>>

\* _listener_loop: time.sleep(self.check_interval), in the body or in the
\* except clause, then while self.running
SvcListenerSleep ==
  /\ ThreadsLive
  /\ lpc \in {"sleep", "except"}
  /\ lpc' = IF AfterIteration(lpc = "except", running) = "top"
            THEN "check" ELSE "done"
  /\ UNCHANGED <<file, tokenVars, now, tcall, sops, last_track_id, ltrack,
                 lbacklog, downloaderVars, lin, acked, removed, batchHist,
                 extVars>>

\* _downloader_loop: get_backlog_size() and the call of process_backlog
SvcSize ==
  /\ ThreadsLive
  /\ dpc = "size"
  /\ \E io \in IoOutcomes :
       IF io # "ok"
       THEN dpc' = "except" /\ UNCHANGED <<backlog_size, dmax>>
       ELSE /\ backlog_size' = GetBacklogSize(file)
            /\ IF BacklogNonEmpty(backlog_size')
               THEN dpc' = "peek" /\ dmax' = BatchCeiling
               ELSE dpc' = "sleep" /\ dmax' = dmax
  /\ iter' = 0
  /\ downloaded' = 0
  /\ calls' = 0
  /\ UNCHANGED <<file, tokenVars, now, tcall, sops, listenerVars, dtrack,
                 dbacklog, lin, acked, removed, fails, callSet, file0, dout, gone,
                 mcall, serviceVars>>

\* process_backlog: for _ in range(max_tracks), get_next_track(), and the
\* return when the range or the record is exhausted
SvcPeek ==
  /\ ThreadsLive
  /\ dpc = "peek"
  /\ IF iter = dmax
     THEN dpc' = "sleep" /\ dtrack' = NoTrack
     ELSE \E io \in IoOutcomes :
            IF io # "ok" THEN dpc' = "except" /\ dtrack' = NoTrack
            ELSE /\ dtrack' = GetNextTrack(file)
                 /\ dpc' = IF dtrack' = NoTrack THEN "sleep" ELSE "download"
  /\ UNCHANGED <<file, tokenVars, now, tcall, sops, listenerVars, dmax, iter,
                 downloaded, dbacklog, lin, acked, removed, batchHist, extVars>>

\* process_backlog: download_track(track) and the branch on its result
SvcDownload ==
  /\ ThreadsLive
  /\ dpc = "download"
  /\ \E out \in DownloadOutcomes(dtrack) :
       /\ calls' = IF out = "invalid" THEN calls ELSE calls + 1
       /\ CASE DownloadTrack(out) = "True" ->
                 dpc' = "remove" /\ UNCHANGED <<dtrack, iter, inflight>>
            [] DownloadTrack(out) = "False" ->
                 /\ dpc' = "peek"
                 /\ dtrack' = NoTrack
                 /\ iter' = iter + 1
                 /\ inflight' = NoTrack
            [] OTHER ->
                 /\ dpc' = "except"
                 /\ dtrack' = NoTrack
                 /\ inflight' = NoTrack
                 /\ UNCHANGED iter
  /\ UNCHANGED <<file, tokenVars, now, tcall, sops, listenerVars, dmax,
                 downloaded, dbacklog, lin, acked, removed, fails, callSet,
                 file0, dout, gone, mcall, backlog_size, settings, phase, running>>

\* process_backlog: remove_track(track_id); downloaded += 1
SvcRemove ==
  /\ ThreadsLive
  /\ dpc = "remove"
  /\ \E io \in IoOutcomes :
       IF io = "ok"
       THEN /\ file' = RemoveTrack(file, dtrack).file
            /\ dpc' = "peek"
            /\ iter' = iter + 1
            /\ downloaded' = downloaded + 1
       ELSE /\ dpc' = "except"
            /\ UNCHANGED <<file, iter, downloaded>>
  /\ dtrack' = NoTrack
  /\ inflight' = NoTrack
  /\ UNCHANGED <<tokenVars, now, tcall, sops, listenerVars, dmax, dbacklog,
                 lin, acked, removed, batchHist, dout, gone, mcall, backlog_size,
                 settings, phase, running>>

\* _downloader_loop: time.sleep(self.download_interval), in the body or in
\* the except clause, then while self.running
SvcDownloaderSleep ==
  /\ ThreadsLive
  /\ dpc \in {"sleep", "except"}
  /\ dpc' = IF AfterIteration(dpc = "except", running) = "top"
            THEN "size" ELSE "done"
  /\ UNCHANGED <<file, tokenVars, now, tcall, sops, listenerVars, dmax, iter,
                 downloaded, dtrack, dbacklog, lin, acked, removed, batchHist,
                 extVars>>

ListenerNext == SvcCheck \/ SvcAdd \/ SvcListenerSleep

DownloaderNext ==
  SvcSize \/ SvcPeek \/ SvcDownload \/ SvcRemove \/ SvcDownloaderSleep

ServiceNext ==
  Startup \/ Signal \/ Exit \/ Restart \/ ListenerNext \/ DownloaderNext

ServiceSpec == ServiceInit /\ [][ServiceNext]_vars

\* ---------------------------------------------- the track monitor alone
MonitorInit ==
  /\ InitCommon
  /\ file = Json(<<>>)
  /\ lpc = "off"
  /\ dpc = "off"
  /\ dmax = BatchCeiling
  /\ file0 = Truncated

\* the record kept of a check_for_new_track call: last_track_id before it,
\* what its token step raised, the response to its request, whether it
\* raised, the event it returned; the last id reported before and after it;
\* whether a poll without a playing track came since that report
CheckRecord(last, tr, resp, cur, chk, prev) ==
  [made |-> TRUE, pre_last |-> last, auth |-> tr.raised,
   resp |-> IF tr.raised = "none" THEN resp ELSE NoPoll,
   raised |-> chk.raised, event |-> chk.event,
   pre_rep |-> prev.rep,
   rep |-> IF chk.event # NoTrack THEN chk.event ELSE prev.rep,
   pre_gap |-> prev.gap,
   gap |-> IF chk.event # NoTrack THEN FALSE
           ELSE prev.gap \/ cur.raised \/ cur.id = NoTrack \/ ~cur.playing]

\* one call of check_for_new_track: _get_access_token, the request,
\* get_currently_playing's handling of both, and the comparison
MonCheck ==
  /\ \E ex \in (IF TokenFresh(access_token, token_expires_at, now)
                THEN {NoExchange} ELSE ExchangeOutcomes), resp \in PollResponses :
       LET tr == GetAccessToken(access_token, token_expires_at, now, ex)
           cur == CurrentlyPlaying(tr, resp)
           chk == CheckForNewTrack(last_track_id, cur)
       IN /\ access_token' = tr.tok
          /\ token_expires_at' = tr.exp
          /\ last_track_id' = chk.last
          /\ mcall' = CheckRecord(last_track_id, tr, resp, cur, chk, mcall)
  /\ UNCHANGED <<file, now, tcall, sops, lpc, ltrack, lbacklog, downloaderVars,
                 lin, acked, removed, batchHist, dout, gone, backlog_size,
                 serviceVars>>

MonitorNext == MonCheck \/ Tick

MonitorSpec == MonitorInit /\ [][MonitorNext]_vars

\* ======================================================== the claims
Store == ReadBacklog(file)

\* the record is whole: no _write_backlog is between its open and its
\* close, and the text parses
RecordWhole == lpc # "add_write" /\ dpc # "rm_write" /\ file.kind = "json"

\* neither thread is inside a store operation
Quiescent ==
  /\ lpc \notin {"add_read", "add_open", "add_write"}
  /\ dpc \notin {"rm_read", "rm_open", "rm_write"}

\* C1: in every reachable state of the two threads, whatever their
\* interleaving, the record holds at most one entry per track identifier.
C1_AtMostOneEntryPerId == NoDup(file.items)

\* C1 witness: the record holds two entries after the listener has enqueued
\* one and the downloader has removed one, with an enqueue and a removal
\* both under way.
C1_Witness ==
  /\ Len(Store) = 2
  /\ acked # {}
  /\ removed > 0
  /\ lpc = "add_read"
  /\ dpc = "rm_open"

\* C2: each store operation is atomic: the returns of the operations so far
\* are those of some serial order of them, and once no operation is in
\* progress the record holds what that serial order leaves.
C2_OperationsAtomic ==
  /\ lin # {}
  /\ Quiescent => \E c \in lin : c.st = Store

\* C3: an entry whose enqueue returned True stays in the record until the
\* capability has returned success for it (looked at whenever the record is
\* whole).
C3_EnqueuedStaysUntilRetrieved == RecordWhole => acked \subseteq Range(Store)

\* C4: the entry handed to the capability, and then removed, is the head of
\* the record all the while: no entry stands before it (looked at whenever
\* the record is whole).
C4_OnlyHeadAttempted ==
  (RecordWhole /\ (dpc = "rm_read" \/ (dpc = "download" /\ UrlUsable(dtrack))))
    => (Store # <<>> /\ Head(Store) = dtrack)

\* C5: a batch of n on a non-empty record in which the capability failed on
\* every attempt invoked it exactly n times, each time on the entry that was
\* at the front, returns 0 and leaves the record as it was.
C5_HeadOfLineBlocking ==
  (dpc = "ret" /\ ReadBacklog(file0) # <<>> /\ fails = iter)
    => /\ calls = dmax
       /\ callSet = {Head(ReadBacklog(file0))}
       /\ downloaded = 0
       /\ file = file0

\* C5 witness: a batch of MaxItems over two entries has returned after the
\* capability failed MaxItems times.
C5_Witness ==
  /\ dpc = "ret"
  /\ dmax = MaxItems
  /\ Len(ReadBacklog(file0)) = 2
  /\ fails = MaxItems
  /\ iter = MaxItems

\* C6: add_track called twice in a row with one identifier: the second call
\* returns False and leaves the record as the first call left it.
C6_EnqueueIdempotent ==
  (Len(sops) = 2 /\ sops[1].op = "add" /\ sops[2].op = "add"
     /\ sops[1].id = sops[2].id)
    => /\ sops[2].ok = FALSE
       /\ file = sops[2].pre
       /\ Len(ReadBacklog(file)) = Len(ReadBacklog(sops[2].pre))

\* C6 witness: the first of the two calls added a second entry.
C6_Witness ==
  /\ Len(sops) = 2
  /\ sops[1].op = "add"
  /\ sops[2].op = "add"
  /\ sops[1].id = sops[2].id
  /\ sops[1].ok
  /\ Len(Store) = 2

\* C7: a batch makes at most max_tracks attempts and returns the number of
\* entries it removed from the record, the listener running beside it.
C7_ReturnCountsRemovals ==
  dpc = "ret" => (iter <= dmax /\ downloaded = removed)

\* C8: a call with a token cached and the time before its expiry margin makes
\* no exchange and returns the cached token, the cache unchanged; it returns
\* the token the call before it returned.
C8_TokenCaching ==
  (tcall.made /\ tcall.pre_tok # NoToken /\ tcall.t < tcall.pre_exp)
    => /\ tcall.exchanges = 0
       /\ tcall.raised = "none"
       /\ tcall.ret = tcall.pre_tok
       /\ access_token = tcall.pre_tok
       /\ token_expires_at = tcall.pre_exp
       /\ (tcall.prev_ret # NoToken => tcall.ret = tcall.prev_ret)

\* C8 witness: after time has passed, a call returned the token of the call
\* before it without an exchange.
C8_Witness ==
  /\ tcall.made
  /\ tcall.t > 0
  /\ tcall.exchanges = 0
  /\ tcall.prev_ret # NoToken
  /\ tcall.ret = tcall.prev_ret

\* C9: a call at or after the cached token's margin makes exactly one
\* exchange; when the exchange succeeds the new token is cached with the
\* expiry time + lifetime - 60 and returned; no call returns a cached token
\* at or after its margin.
C9_TokenRefresh ==
  tcall.made
    => /\ (tcall.pre_tok # NoToken /\ tcall.t >= tcall.pre_exp)
            => /\ tcall.exchanges = 1
               /\ tcall.ex.kind = "ok"
                    => /\ tcall.raised = "none"
                       /\ tcall.ret = tcall.ex.token
                       /\ access_token = tcall.ex.token
                       /\ token_expires_at = tcall.t + tcall.ex.life - ExpiryMargin
       /\ (tcall.exchanges = 0 /\ tcall.raised = "none")
            => tcall.t < tcall.pre_exp

\* C9 witness: a call after the margin of a cached token exchanged it for
\* another token.
C9_Witness ==
  /\ tcall.made
  /\ tcall.pre_tok # NoToken
  /\ tcall.t >= tcall.pre_exp
  /\ tcall.t > 0
  /\ tcall.exchanges = 1
  /\ tcall.ex.kind = "ok"
  /\ tcall.ret # tcall.pre_tok

\* C10: a call that needs an exchange which fails (network error, non-2xx
\* response, response without access_token) ends with an error and returns
\* no token.
C10_ExchangeFailureRaises ==
  (tcall.made /\ (tcall.pre_tok = NoToken \/ tcall.t >= tcall.pre_exp)
     /\ tcall.ex.kind \in {"network_error", "http_error", "no_token"})
    => /\ tcall.raised # "none"
       /\ tcall.ret = NoToken

\* C10 witness: the refresh of an expired token got a response without an
\* access_token.
C10_Witness ==
  /\ tcall.made
  /\ tcall.pre_tok # NoToken
  /\ tcall.t >= tcall.pre_exp
  /\ tcall.ex.kind = "no_token"
  /\ tcall.raised = "ValueError"

\* C11: a check_for_new_track call returns an event exactly when its poll
\* yields a track that is playing and whose id differs from last_track_id;
\* then the event is that track and last_track_id becomes its id; otherwise
\* last_track_id stays, and a poll of the id held returns nothing.
C11_EventIffNewPlayingTrack ==
  LET yieldsNew == /\ mcall.auth = "none"
                   /\ mcall.resp.kind = "track"
                   /\ mcall.resp.playing
                   /\ mcall.resp.id # mcall.pre_last
  IN mcall.made
       => /\ (mcall.event # NoTrack) <=> yieldsNew
          /\ yieldsNew
               => (mcall.event = mcall.resp.id /\ last_track_id = mcall.resp.id)
          /\ ~yieldsNew => last_track_id = mcall.pre_last
          /\ (mcall.resp.kind = "track" /\ mcall.resp.id = mcall.pre_last)
               => mcall.event = NoTrack

\* C11 witness: a call reported a track after another track had been held.
C11_Witness ==
  /\ mcall.made
  /\ mcall.pre_last # NoTrack
  /\ mcall.event # NoTrack
  /\ last_track_id = mcall.event

\* C12: no call reports the id that the last report before it reported.
C12_NoRepeatedReport ==
  (mcall.made /\ mcall.event # NoTrack) => mcall.event # mcall.pre_rep

\* C12 witness: the track last reported is playing again after a poll
\* without a playing track, and the call returns nothing.
C12_Witness ==
  /\ mcall.made
  /\ mcall.pre_gap
  /\ mcall.resp.kind = "track"
  /\ mcall.resp.playing
  /\ mcall.resp.id = mcall.pre_rep
  /\ mcall.event = NoTrack
  /\ ~mcall.raised

\* C13: while self.running is true no loop has ended, whatever was raised in
\* its body; a loop in its except clause goes on to its next iteration after
\* its sleep; and while one loop is in its except clause the other can step.
C13_ErrorsNeverEndALoop ==
  /\ [](running => (lpc # "done" /\ dpc # "done"))
  /\ [][(lpc = "except" /\ running /\ lpc' # lpc) => lpc' = "check"]_vars
  /\ [][(dpc = "except" /\ running /\ dpc' # dpc) => dpc' = "size"]_vars
  /\ []((running /\ lpc = "except") => ENABLED DownloaderNext)
  /\ []((running /\ dpc = "except") => ENABLED ListenerNext)

\* C13 witness: the service is running with both loops in their except
\* clause, the downloader's reached from inside a batch.
C13_Witness ==
  /\ running
  /\ lpc = "except"
  /\ dpc = "except"
  /\ iter > 0

\* C14: the retrieval attempt that was under way when the termination
\* request came is finished by the time the process has ended: it has failed,
\* or it has succeeded and its entry has been removed.
C14_AttemptCompletesBeforeExit == phase = "ended" => inflight = NoTrack

\* C15: an operation that found the record absent, unreadable or malformed
\* raised nothing, returned what it returns on an empty collection and left
\* the store as it leaves an empty one.
C15_SelfHealingRead ==
  (sops # <<>> /\ sops[1].pre \in DamagedFiles)
    => LET onEmpty == Apply(sops[1].op, Json(<<>>), sops[1].id)
       IN /\ sops[1].raised = "none"
          /\ sops[1].ret = onEmpty.ret
          /\ ReadBacklog(file) = ReadBacklog(onEmpty.file)

\* C16: an attempt in which the capability raised leaves process_backlog
\* running: the record is as it was with the entry in it, nothing is
\* counted, and the batch goes on to its next iteration.
C16_RaiseIsAFailedAttempt ==
  [][(dpc = "download" /\ dpc' # dpc /\ dout' = "raise")
       => /\ dpc' = "peek"
          /\ iter' = iter + 1
          /\ downloaded' = downloaded
          /\ file' = file
          /\ dtrack \in Range(ReadBacklog(file'))]_vars

\* C16 witness: the capability raised in the attempt before this one, for
\* the entry now attempted again.
C16_Witness ==
  /\ dout = "raise"
  /\ dpc = "download"
  /\ iter > 0
  /\ dtrack = Head(ReadBacklog(file0))

\* C17: a check_for_new_track call whose token exchange failed (network
\* error, non-2xx response, no access_token) ends with an error: it does not
\* return None as it does when nothing is playing.
C17_AuthFailurePropagates ==
  (mcall.made /\ mcall.auth # "none") => mcall.raised

\* C18: when a required setting is absent the process never gets past its
\* configuration error: the record is neither created nor written, service
\* is not running and neither loop has started.
C18_ConfigErrorBeforeAnything ==
  (settings # Required)
    => /\ phase \in {"new", "config_error"}
       /\ file = file0
       /\ ~running
       /\ lpc = "off"
       /\ dpc = "off"

\* C18 witness: startup has failed with one setting absent and the record
\* still absent.
C18_Witness ==
  /\ phase = "config_error"
  /\ settings = Required \ {"DOWNLOAD_PASSWORD"}
  /\ file = Absent

\* C19: an add_track call returns True exactly when the record it found
\* held no entry with the id; then the record is the one found with the id
\* appended; otherwise the file is as found.
C19_EnqueueFrame ==
  (sops # <<>> /\ sops[Len(sops)].op = "add")
    => LET o == sops[Len(sops)]
           pre == ReadBacklog(o.pre)
       IN /\ o.ok <=> (o.id \notin Range(pre))
          /\ o.ok => ReadBacklog(file) = Append(pre, o.id)
          /\ ~o.ok => file = o.pre

\* C19 witness: an id removed by the call before is enqueued again, behind
\* another entry.
C19_Witness ==
  /\ Len(sops) = 2
  /\ sops[1].op = "remove"
  /\ sops[1].ok
  /\ sops[2].op = "add"
  /\ sops[2].id = sops[1].id
  /\ sops[2].ok
  /\ Len(ReadBacklog(file)) = 2

\* C20: a remove_track call returns True exactly when the record it found
\* held an entry with the id; afterwards the record is the one found without
\* that id, the others in their order; when it returns False the file is as
\* found.
C20_RemoveFrame ==
  (sops # <<>> /\ sops[Len(sops)].op = "remove")
    => LET o == sops[Len(sops)]
           pre == ReadBacklog(o.pre)
       IN /\ o.ok <=> (o.id \in Range(pre))
          /\ o.id \notin Range(ReadBacklog(file))
          /\ ReadBacklog(file) = SelectSeq(pre, LAMBDA x : x # o.id)
          /\ ~o.ok => file = o.pre

\* C20 witness: the middle entry of three was removed.
C20_Witness ==
  /\ sops # <<>>
  /\ sops[Len(sops)].op = "remove"
  /\ sops[Len(sops)].ok
  /\ Len(ReadBacklog(sops[Len(sops)].pre)) = 3
  /\ ReadBacklog(sops[Len(sops)].pre)[2] = sops[Len(sops)].id


\* an entry with neither an http URL nor a spotify:track: URI
NoUsableUrl(id) ==
  UrlOf(id) \notin {"https://open.spotify.com/track/", "spotify:track:"}

\* C21: an attempt on an entry without a usable URL is a failed attempt in
\* which the capability is not invoked: nothing is counted, the record is as
\* it was with the entry at its front, and the batch goes on; a batch that
\* started on such an entry returns 0 without one invocation.
C21_NoUrlFailsWithoutCapability ==
  /\ [][(dpc = "download" /\ NoUsableUrl(dtrack) /\ dpc' # dpc)
          => /\ dout' = "invalid"
             /\ calls' = calls
             /\ callSet' = callSet
             /\ dpc' = "peek"
             /\ iter' = iter + 1
             /\ downloaded' = downloaded
             /\ file' = file
             /\ Head(ReadBacklog(file')) = dtrack]_vars
  /\ []((dpc = "ret" /\ ReadBacklog(file0) # <<>>
           /\ NoUsableUrl(Head(ReadBacklog(file0))))
          => (calls = 0 /\ iter = dmax /\ downloaded = 0 /\ file = file0))

\* C21 witness: the entry without a usable URL is attempted once more, at
\* the front of two entries, after an attempt on it that invoked nothing.
C21_Witness ==
  /\ dpc = "download"
  /\ NoUsableUrl(dtrack)
  /\ dout = "invalid"
  /\ iter > 0
  /\ calls = 0
  /\ Len(ReadBacklog(file)) = 2


\* C22: process_backlog is running only in a cycle whose get_backlog_size()
\* returned more than 0, and always with max_tracks 10; the capability is
\* invoked at most 10 times in a cycle, and not at all in a cycle whose
\* check found the record empty.
C22_BatchOnlyWhenNonEmptyCeilingTen ==
  /\ dpc \in {"peek", "download", "remove"}
       => (backlog_size > 0 /\ dmax = BatchCeiling)
  /\ calls <= BatchCeiling
  /\ backlog_size = 0 => calls = 0

\* C22 witness: a cycle that found one entry has invoked the capability 10
\* times and ended, the listener having enqueued a second entry meanwhile.
C22_Witness ==
  /\ dpc = "sleep"
  /\ backlog_size = 1
  /\ calls = BatchCeiling
  /\ iter = BatchCeiling
  /\ Len(ReadBacklog(file)) = 2


\* C23: constructing the store over an absent record creates it as the empty
\* list, and a start with every setting present does not fail; over a record
\* that exists it leaves the file as it is; and the record a process finds at
\* its construction is the one the process before it left, so the entries
\* pending then are there afterwards, in their order.
C23_ConstructionKeepsEntries ==
  /\ [][(phase = "new" /\ phase' # phase /\ ValidateConfig(settings))
          => /\ phase' = "up"
             /\ file = Absent => file' = Json(<<>>)
             /\ file # Absent => file' = file
             /\ ReadBacklog(file') = ReadBacklog(file0)]_vars
  /\ [][(phase = "ended" /\ phase' # phase) => (file' = file /\ file0' = file)]_vars

\* C23 witness: the store has just been constructed over a record with two
\* entries, which it holds as found.
C23_Witness ==
  /\ phase = "up"
  /\ lpc = "check"
  /\ dpc = "size"
  /\ backlog_size = NoSize
  /\ last_track_id = NoTrack
  /\ file = file0
  /\ Len(ReadBacklog(file)) = 2


\* C24: an entry removed after its successful retrieval is not in the
\* record again unless an add_track call for its id was under way at the
\* removal or was made after it (looked at whenever the record is whole).
C24_NoResurrection == RecordWhole => gone \cap Range(Store) = {}


\* C25: with both loops scheduled and the capability not failing for ever on
\* one entry, every entry whose add_track returned True is in the end
\* retrieved with success and out of the record.
C25_EventualDrain ==
  \A id \in TrackIds :
    (id \in acked) ~> (id \notin acked /\ RecordWhole /\ id \notin Range(Store))


\* C26: a check_for_new_track call that returns no event leaves
\* last_track_id as it was: when the poll ended with an error, when the token
\* step failed, when nothing is playing or the item is not a track, when the
\* track is paused (whatever its id), and when its id is the one held.
C26_NoEventKeepsLastSeen ==
  mcall.made
    => /\ mcall.event = NoTrack => last_track_id = mcall.pre_last
       /\ (mcall.raised \/ mcall.auth # "none") => last_track_id = mcall.pre_last
       /\ mcall.resp.kind \in {"conn_error", "no_content", "http_error",
                                "no_item", "episode"}
            => (mcall.event = NoTrack /\ last_track_id = mcall.pre_last)
       /\ (mcall.resp.kind = "track" /\ ~mcall.resp.playing)
            => (mcall.event = NoTrack /\ last_track_id = mcall.pre_last)
       /\ (mcall.resp.kind = "track" /\ mcall.resp.id = mcall.pre_last)
            => (mcall.event = NoTrack /\ last_track_id = mcall.pre_last)

\* C26 witness: a call that found another track than the one held, paused,
\* returned nothing and still holds the old id.
C26_Witness ==
  /\ mcall.made
  /\ mcall.pre_last # NoTrack
  /\ mcall.resp.kind = "track"
  /\ ~mcall.resp.playing
  /\ mcall.resp.id # mcall.pre_last
  /\ mcall.event = NoTrack
  /\ last_track_id = mcall.pre_last


\* C27: a call whose exchange failed leaves access_token and
\* token_expires_at as they were; the call after it makes an exchange again;
\* and no call returns an empty token or a cached token at or after its
\* margin.
C27_FailedExchangeKeepsCache ==
  tcall.made
    => /\ tcall.raised # "none"
            => (access_token = tcall.pre_tok /\ token_expires_at = tcall.pre_exp)
       /\ tcall.prev_raised # "none" => tcall.exchanges = 1
       /\ tcall.raised = "none"
            => /\ tcall.ret # NoToken
               /\ tcall.exchanges = 0 => tcall.t < tcall.pre_exp

\* C27 witness: the refresh of a cached token past its margin fails again,
\* after the call before it had failed, and the cache still holds that token.
C27_Witness ==
  /\ tcall.made
  /\ tcall.prev_raised # "none"
  /\ tcall.raised # "none"
  /\ tcall.pre_tok # NoToken
  /\ tcall.t >= tcall.pre_exp
  /\ access_token = tcall.pre_tok
  /\ token_expires_at = tcall.pre_exp

=============================================================================
